---- MODULE Spec2Model ----
(***************************************************************************)
(* The wallet Keychain of src/wallet/keychain.py: a dict from public key   *)
(* to BLSPrivateKey with three methods, add_secret_exponents, sign and     *)
(* signature_for_solution.                                                 *)
(*                                                                         *)
(* BLSPrivateKey, BLSSignature and condition_tools are imported by         *)
(* keychain.py; they are modelled from the specification's description,    *)
(* over a small additive group Z_GROUP_ORDER with generator 1 and the      *)
(* pairing e(a, b) = a * b.                                                *)
(*                                                                         *)
(* Two specifications:                                                     *)
(*   Spec      one session calling the three methods one after another,    *)
(*             every method body taken as one atomic action;               *)
(*   SpecConc  several signature_for_solution requests interleaved         *)
(*             statement by statement against one populated Keychain.      *)
(***************************************************************************)
EXTENDS Integers, Sequences, FiniteSets

\* ------------------------------------------------------------- bounds
\* Order of the small group standing for the groups of the BLS scheme.
GROUP_ORDER == 3
\* Total number of secret exponents a session hands to add_secret_exponents.
MaxHistory == 2
\* Largest number of conditions in one solution's output.
MaxConditions == 2

\* Secret exponents: 0 and GROUP_ORDER derive the same public key, so
\* add_secret_exponents can meet a key it already holds under another exponent.
Scalars == 0 .. GROUP_ORDER
PublicKeys == 0 .. (GROUP_ORDER - 1)
Messages == {1, 2}
Opcodes == {"AGG_SIG", "AGG_SIG_ME", "OTHER"}
\* The concurrent signing requests under SpecConc.
Readers == {1, 2}

\* Stands for "no value" in a result record.
Nil == 0 - 1

SeqsUpTo(S, n) == UNION {[1 .. k -> S] : k \in 0 .. n}

\* ------------------------------------------------- signature scheme
\* BLSPrivateKey.from_secret_exponent: the private key object wrapping e.
from_secret_exponent(e) == [type |-> "BLSPrivateKey", secret_exponent |-> e]

\* BLSPrivateKey.public_key: the group element e * G.
public_key(bls_private_key) == bls_private_key.secret_exponent % GROUP_ORDER

\* BLSPrivateKey.sign: the group element e * H(m).
bls_sign(bls_private_key, message_hash) ==
    (bls_private_key.secret_exponent * message_hash) % GROUP_ORDER

\* The scheme's verification e(G, sig) = e(pk, H(m)).
verify(pk, message_hash, signature) ==
    signature % GROUP_ORDER = (pk * message_hash) % GROUP_ORDER

\* The identity element of the signature group.
IDENTITY == 0

\* BLSSignature.aggregate: the group combination of the signatures, in order.
RECURSIVE aggregate(_)
aggregate(signatures) ==
    IF signatures = <<>> THEN IDENTITY
    ELSE (Head(signatures) + aggregate(Tail(signatures))) % GROUP_ORDER

\* ------------------------------------------------ obligation deriver
\* A condition: an opcode and its arguments. The arguments of a condition
\* that asks for no signature play no part here and are left at one value.
Conditions ==
    [opcode : {"AGG_SIG", "AGG_SIG_ME"}, public_key : PublicKeys, message : Messages]
    \cup {[opcode |-> "OTHER", public_key |-> 0, message |-> 1]}
Solutions ==
    [wellformed : {TRUE}, conditions : SeqsUpTo(Conditions, MaxConditions)]
    \cup {[wellformed |-> FALSE, conditions |-> <<>>]}

AGGSIGPair(pk, h) == [public_key |-> pk, message_hash |-> h]

\* Results of a call: a returned value or a raised exception.
Return(v) == [kind |-> "return", value |-> v, key |-> Nil]
Raise(kind, k) == [kind |-> kind, value |-> Nil, key |-> k]

\* conditions_for_solution: the solution's condition list, or the parse error.
conditions_for_solution(solution) ==
    IF solution.wellformed THEN Return(solution.conditions)
    ELSE Raise("ConditionParseError", Nil)

RECURSIVE SelectOpcode(_, _)
SelectOpcode(conditions, opcode) ==
    IF conditions = <<>> THEN <<>>
    ELSE IF Head(conditions).opcode = opcode
         THEN <<Head(conditions)>> \o SelectOpcode(Tail(conditions), opcode)
         ELSE SelectOpcode(Tail(conditions), opcode)

\* conditions_by_opcode: opcode -> the conditions of that opcode, in the
\* order they appear in the solution's output.
conditions_by_opcode(conditions) ==
    [opcode \in Opcodes |-> SelectOpcode(conditions, opcode)]

\* The message hash a condition asks a signature over: the message verbatim
\* for AGG_SIG, the message bound to the coin for AGG_SIG_ME.
message_hash_for(condition) ==
    IF condition.opcode = "AGG_SIG" THEN condition.message
    ELSE condition.message + 2

RECURSIVE PairsOf(_)
PairsOf(conditions) ==
    IF conditions = <<>> THEN <<>>
    ELSE <<AGGSIGPair(Head(conditions).public_key,
                      message_hash_for(Head(conditions)))>>
         \o PairsOf(Tail(conditions))

\* hash_key_pairs_for_conditions_dict: one pair per signature-requiring
\* condition, opcode class by opcode class.
hash_key_pairs_for_conditions_dict(conditions_dict) ==
    PairsOf(conditions_dict["AGG_SIG"]) \o PairsOf(conditions_dict["AGG_SIG_ME"])

\* ------------------------------------------------------- the Keychain
VARIABLES
    keychain,   \* the dict itself: public key -> BLSPrivateKey
    history,    \* every secret exponent handed to add_secret_exponents, in order
    pc,         \* the session: "idle" or "returned" (a call's result is at hand)
    last,       \* the call that returned last, with its arguments and its result
    rd          \* SpecConc: per reader, the signature_for_solution request in progress

vars == <<keychain, history, pc, last, rd>>

\* Python's None, as dict.get returns it for a missing key.
None == [type |-> "NoneType", secret_exponent |-> Nil]

\* dict.get(key): the value stored under key, or None.
dict_get(self, key) == IF key \in DOMAIN self THEN self[key] ELSE None

\* dict.__setitem__: insert, or overwrite the entry of an existing key.
dict_set(self, key, value) ==
    [k \in DOMAIN self \cup {key} |-> IF k = key THEN value ELSE self[k]]

\* dict.pop(key, None): the dict without key.
dict_del(self, key) == [k \in DOMAIN self \ {key} |-> self[k]]

\* Truth value of an object: None is false; a BLSPrivateKey instance defines
\* neither __bool__ nor __len__ and is true whatever exponent it wraps.
Truthy(value) == value.type # "NoneType"

\* Faulty variant of add_secret_exponents: an entry already stored under the
\* derived key is kept (setdefault in place of assignment).
RECURSIVE add_secret_exponents_first_wins(_, _)
add_secret_exponents_first_wins(self, secret_exponents) ==
    IF secret_exponents = <<>> THEN [self |-> self, outcome |-> Return(Nil)]
    ELSE LET bls_private_key == from_secret_exponent(Head(secret_exponents))
             k == public_key(bls_private_key)
         IN add_secret_exponents_first_wins(
                IF k \in DOMAIN self THEN self ELSE dict_set(self, k, bls_private_key),
                Tail(secret_exponents))

\* Keychain.add_secret_exponents: the loop over the exponents, each private
\* key written under its derived public key.
RECURSIVE add_secret_exponents(_, _)
add_secret_exponents(self, secret_exponents) ==
    IF secret_exponents = <<>> THEN [self |-> self, outcome |-> Return(Nil)]
    ELSE LET bls_private_key == from_secret_exponent(Head(secret_exponents))
         IN add_secret_exponents(
                dict_set(self, public_key(bls_private_key), bls_private_key),
                Tail(secret_exponents))

\* Faulty variant of sign: a private key of exponent 0 counts as false, as a
\* bare integer would.
sign_zero_is_false(self, aggsig_pair) ==
    LET bls_private_key == dict_get(self, aggsig_pair.public_key)
    IN IF ~(Truthy(bls_private_key) /\ bls_private_key.secret_exponent # 0)
       THEN [self |-> self, outcome |-> Raise("ValueError", aggsig_pair.public_key)]
       ELSE [self |-> self,
             outcome |-> Return(bls_sign(bls_private_key, aggsig_pair.message_hash))]

\* Faulty variant of sign: the entry is taken out of the dict (pop in place
\* of get).
sign_popping(self, aggsig_pair) ==
    LET bls_private_key == dict_get(self, aggsig_pair.public_key)
    IN IF ~Truthy(bls_private_key)
       THEN [self |-> self, outcome |-> Raise("ValueError", aggsig_pair.public_key)]
       ELSE [self |-> dict_del(self, aggsig_pair.public_key),
             outcome |-> Return(bls_sign(bls_private_key, aggsig_pair.message_hash))]

\* Keychain.sign: look the key up, raise on a false value, sign otherwise.
sign(self, aggsig_pair) ==
    LET bls_private_key == dict_get(self, aggsig_pair.public_key)
    IN IF ~Truthy(bls_private_key)
       THEN [self |-> self, outcome |-> Raise("ValueError", aggsig_pair.public_key)]
       ELSE [self |-> self,
             outcome |-> Return(bls_sign(bls_private_key, aggsig_pair.message_hash))]

\* The result of signature_for_solution, with what it did on the way: the
\* pairs it handed to sign and the signatures it collected.
Done(self, outcome, calls, signatures) ==
    [self |-> self, outcome |-> outcome, calls |-> calls, signatures |-> signatures]

\* Faulty variant of sign_each: a pair that cannot be signed is passed over.
RECURSIVE sign_each_skipping(_, _, _, _)
sign_each_skipping(self, pairs, calls, signatures) ==
    IF pairs = <<>> THEN Done(self, Return(aggregate(signatures)), calls, signatures)
    ELSE LET r == sign(self, Head(pairs))
         IN IF r.outcome.kind # "return"
            THEN sign_each_skipping(r.self, Tail(pairs),
                                    Append(calls, Head(pairs)), signatures)
            ELSE sign_each_skipping(r.self, Tail(pairs), Append(calls, Head(pairs)),
                                    Append(signatures, r.outcome.value))

\* Faulty variant of sign_each: the last signature is returned unaggregated.
RECURSIVE sign_each_last_only(_, _, _, _)
sign_each_last_only(self, pairs, calls, signatures) ==
    IF pairs = <<>>
    THEN Done(self,
              Return(IF signatures = <<>> THEN aggregate(signatures)
                     ELSE signatures[Len(signatures)]),
              calls, signatures)
    ELSE LET r == sign(self, Head(pairs))
         IN IF r.outcome.kind # "return"
            THEN Done(r.self, r.outcome, Append(calls, Head(pairs)), signatures)
            ELSE sign_each_last_only(r.self, Tail(pairs), Append(calls, Head(pairs)),
                                     Append(signatures, r.outcome.value))

\* Faulty variant of sign_each: every signature is collected twice.
RECURSIVE sign_each_twice(_, _, _, _)
sign_each_twice(self, pairs, calls, signatures) ==
    IF pairs = <<>> THEN Done(self, Return(aggregate(signatures)), calls, signatures)
    ELSE LET r == sign(self, Head(pairs))
         IN IF r.outcome.kind # "return"
            THEN Done(r.self, r.outcome, Append(calls, Head(pairs)), signatures)
            ELSE sign_each_twice(r.self, Tail(pairs), Append(calls, Head(pairs)),
                                 signatures \o <<r.outcome.value, r.outcome.value>>)

\* Faulty variant of sign_each: the pairs are taken last to first.
RECURSIVE sign_each_backwards(_, _, _, _)
sign_each_backwards(self, pairs, calls, signatures) ==
    IF pairs = <<>> THEN Done(self, Return(aggregate(signatures)), calls, signatures)
    ELSE LET p == pairs[Len(pairs)]
             r == sign(self, p)
         IN IF r.outcome.kind # "return"
            THEN Done(r.self, r.outcome, Append(calls, p), signatures)
            ELSE sign_each_backwards(r.self, SubSeq(pairs, 1, Len(pairs) - 1),
                                     Append(calls, p),
                                     Append(signatures, r.outcome.value))

\* Faulty variant of sign_each: an empty list of signatures is an error.
RECURSIVE sign_each_nonempty(_, _, _, _)
sign_each_nonempty(self, pairs, calls, signatures) ==
    IF pairs = <<>>
    THEN Done(self,
              IF signatures = <<>> THEN Raise("ValueError", Nil)
              ELSE Return(aggregate(signatures)),
              calls, signatures)
    ELSE LET r == sign(self, Head(pairs))
         IN IF r.outcome.kind # "return"
            THEN Done(r.self, r.outcome, Append(calls, Head(pairs)), signatures)
            ELSE sign_each_nonempty(r.self, Tail(pairs), Append(calls, Head(pairs)),
                                    Append(signatures, r.outcome.value))

\* The loop of signature_for_solution and its return: sign each pair in
\* order, let the first exception out, aggregate what was collected.
RECURSIVE sign_each(_, _, _, _)
sign_each(self, pairs, calls, signatures) ==
    IF pairs = <<>> THEN Done(self, Return(aggregate(signatures)), calls, signatures)
    ELSE LET r == sign(self, Head(pairs))
         IN IF r.outcome.kind # "return"
            THEN Done(r.self, r.outcome, Append(calls, Head(pairs)), signatures)
            ELSE sign_each(r.self, Tail(pairs), Append(calls, Head(pairs)),
                           Append(signatures, r.outcome.value))

\* Faulty variant of signature_for_solution: a solution that cannot be
\* parsed counts as one without conditions.
signature_for_solution_lenient(self, solution) ==
    LET parsed == conditions_for_solution(solution)
    IN sign_each(self,
                 hash_key_pairs_for_conditions_dict(
                     conditions_by_opcode(
                         IF parsed.kind # "return" THEN <<>> ELSE parsed.value)),
                 <<>>, <<>>)

\* Keychain.signature_for_solution: parse the solution (an exception of the
\* parse leaves before the loop), derive the pairs, sign each, aggregate.
signature_for_solution(self, solution) ==
    LET parsed == conditions_for_solution(solution)
    IN IF parsed.kind # "return" THEN Done(self, parsed, <<>>, <<>>)
       ELSE sign_each(self,
                      hash_key_pairs_for_conditions_dict(
                          conditions_by_opcode(parsed.value)),
                      <<>>, <<>>)

\* ------------------------------------------------- one session (Spec)
NoPair == AGGSIGPair(Nil, Nil)
NoSolution == [wellformed |-> FALSE, conditions |-> <<>>]

\* No call has returned since the session last went on.
NoCall ==
    [op |-> "none", secret_exponents |-> <<>>, aggsig_pair |-> NoPair,
     solution |-> NoSolution, before |-> <<>>, outcome |-> Return(Nil),
     calls |-> <<>>, signatures |-> <<>>]

NoRequest ==
    [pc |-> "idle", solution |-> NoSolution, pairs |-> <<>>, signatures |-> <<>>,
     outcome |-> Return(Nil)]

\* Keychain(): the empty dict.
Init ==
    /\ keychain = <<>>
    /\ history = <<>>
    /\ pc = "idle"
    /\ last = NoCall
    /\ rd = [p \in Readers |-> NoRequest]

\* A call of keychain.add_secret_exponents(secret_exponents).
CallAddSecretExponents ==
    /\ pc = "idle"
    /\ \E secret_exponents \in SeqsUpTo(Scalars, MaxHistory - Len(history)) :
          LET r == add_secret_exponents(keychain, secret_exponents)
          IN /\ keychain' = r.self
             /\ history' = history \o secret_exponents
             /\ last' = [NoCall EXCEPT !.op = "add_secret_exponents",
                                       !.secret_exponents = secret_exponents,
                                       !.before = keychain,
                                       !.outcome = r.outcome]
    /\ pc' = "returned"
    /\ UNCHANGED rd

\* A call of keychain.sign(aggsig_pair).
CallSign ==
    /\ pc = "idle"
    /\ \E k \in PublicKeys, h \in Messages :
          LET r == sign(keychain, AGGSIGPair(k, h))
          IN /\ keychain' = r.self
             /\ last' = [NoCall EXCEPT !.op = "sign",
                                       !.aggsig_pair = AGGSIGPair(k, h),
                                       !.before = keychain,
                                       !.outcome = r.outcome]
    /\ pc' = "returned"
    /\ UNCHANGED <<history, rd>>

\* A call of keychain.signature_for_solution(solution).
CallSignatureForSolution ==
    /\ pc = "idle"
    /\ \E solution \in Solutions :
          LET r == signature_for_solution(keychain, solution)
          IN /\ keychain' = r.self
             /\ last' = [NoCall EXCEPT !.op = "signature_for_solution",
                                       !.solution = solution,
                                       !.before = keychain,
                                       !.outcome = r.outcome,
                                       !.calls = r.calls,
                                       !.signatures = r.signatures]
    /\ pc' = "returned"
    /\ UNCHANGED <<history, rd>>

\* The caller takes the result (or catches the exception) and goes on.
GoOn ==
    /\ pc = "returned"
    /\ pc' = "idle"
    /\ last' = NoCall
    /\ UNCHANGED <<keychain, history, rd>>

Next ==
    \/ CallAddSecretExponents
    \/ CallSign
    \/ CallSignatureForSolution
    \/ GoOn

Spec == Init /\ [][Next]_vars

\* ------------------------------------ concurrent requests (SpecConc)
\* The requests the readers make: over two public keys and one message, so
\* that two requests of MaxConditions pairs each can be interleaved in full.
ConcSolutions ==
    [wellformed : {TRUE},
     conditions : SeqsUpTo([opcode : {"AGG_SIG"}, public_key : {0, 1}, message : {1}],
                           MaxConditions)]
    \cup {NoSolution}

\* The Keychain was populated before the first request and is not populated
\* again: history holds the exponents it was populated from.
InitConc ==
    /\ history \in SeqsUpTo(Scalars, MaxHistory)
    /\ keychain = add_secret_exponents(<<>>, history).self
    /\ pc = "idle"
    /\ last = NoCall
    /\ rd = [p \in Readers |-> NoRequest]

\* signature_for_solution up to the loop: signatures = [], the parse and the
\* derivation of the pairs.
Request(p) ==
    /\ rd[p].pc = "idle"
    /\ \E solution \in ConcSolutions :
          LET parsed == conditions_for_solution(solution)
          IN rd' = [rd EXCEPT ![p] =
                 IF parsed.kind # "return"
                 THEN [NoRequest EXCEPT !.pc = "done", !.solution = solution,
                                        !.outcome = parsed]
                 ELSE [NoRequest EXCEPT !.pc = "loop", !.solution = solution,
                                        !.pairs = hash_key_pairs_for_conditions_dict(
                                                      conditions_by_opcode(parsed.value))]]
    /\ UNCHANGED <<keychain, history, pc, last>>

\* One turn of the loop: signature = self.sign(_); signatures.append(signature).
Iterate(p) ==
    /\ rd[p].pc = "loop"
    /\ rd[p].pairs # <<>>
    /\ LET r == sign(keychain, Head(rd[p].pairs))
       IN /\ keychain' = r.self
          /\ rd' = [rd EXCEPT ![p] =
                 IF r.outcome.kind # "return"
                 THEN [@ EXCEPT !.pc = "done", !.outcome = r.outcome]
                 ELSE [@ EXCEPT !.pairs = Tail(@),
                                !.signatures = Append(@, r.outcome.value)]]
    /\ UNCHANGED <<history, pc, last>>

\* The loop is over: return BLSSignature.aggregate(signatures).
Aggregate(p) ==
    /\ rd[p].pc = "loop"
    /\ rd[p].pairs = <<>>
    /\ rd' = [rd EXCEPT ![p] = [@ EXCEPT !.pc = "done",
                                         !.outcome = Return(aggregate(rd[p].signatures))]]
    /\ UNCHANGED <<keychain, history, pc, last>>

NextConc ==
    \E p \in Readers :
        \/ Request(p)
        \/ Iterate(p)
        \/ Aggregate(p)

SpecConc == InitConc /\ [][NextConc]_vars

\* ------------------------------------------------------------ claims
\* The pairs the last signature_for_solution call derived from its solution.
LastPairs ==
    hash_key_pairs_for_conditions_dict(conditions_by_opcode(last.solution.conditions))

\* A signature_for_solution call on a well-formed solution has returned.
Signed == last.op = "signature_for_solution" /\ last.solution.wellformed

AllPresent(self, pairs) ==
    \A i \in DOMAIN pairs : pairs[i].public_key \in DOMAIN self

\* Every reordering of a sequence.
Permutations(seq) ==
    LET n == Len(seq)
    IN {[i \in 1 .. n |-> seq[f[i]]] :
            f \in {g \in [1 .. n -> 1 .. n] : \A i, j \in 1 .. n : g[i] = g[j] => i = j}}

\* The Keychain the populate phase of SpecConc built.
PopulatedKeychain == add_secret_exponents(<<>>, history).self

\* C1: when a pair of the solution names a public key the Keychain does not
\* hold, signature_for_solution raises the unknown-key error naming a key the
\* Keychain does not hold, returns no signature at all, and the Keychain is
\* what it was before the call.
C1_AllOrNothing ==
    (Signed /\ ~AllPresent(last.before, LastPairs))
    => /\ last.outcome.kind = "ValueError"
       /\ last.outcome.value = Nil
       /\ last.outcome.key \notin DOMAIN last.before
       /\ keychain = last.before

\* C1 witness: the first pair could be signed, the second names an unknown key.
C1_Witness ==
    /\ Signed
    /\ Len(LastPairs) = 2
    /\ LastPairs[1].public_key \in DOMAIN last.before
    /\ LastPairs[2].public_key \notin DOMAIN last.before
    /\ last.outcome.kind = "ValueError"

\* C2: sign raises the unknown-key error, naming the key, exactly when the
\* key is not in the Keychain; for a key that is, whatever exponent its entry
\* wraps, it returns the signature of the message hash under the stored
\* private key, and that signature verifies against the key and the hash.
C2_SignIffPresent ==
    last.op = "sign"
    => LET k == last.aggsig_pair.public_key
           h == last.aggsig_pair.message_hash
       IN /\ last.outcome.kind = "ValueError" <=> k \notin DOMAIN last.before
          /\ k \notin DOMAIN last.before => last.outcome = Raise("ValueError", k)
          /\ k \in DOMAIN last.before =>
                /\ last.outcome = Return(bls_sign(last.before[k], h))
                /\ verify(k, h, last.outcome.value)

\* C2 witness: sign returned for a key whose entry wraps the exponent 0.
C2_Witness ==
    /\ last.op = "sign"
    /\ last.aggsig_pair.public_key \in DOMAIN last.before
    /\ last.before[last.aggsig_pair.public_key].secret_exponent = 0
    /\ last.outcome.kind = "return"

\* C3: after any sequence of add_secret_exponents calls the Keychain holds
\* one entry per distinct public key derived from the exponents supplied so
\* far, each entry is the private key of the exponent supplied last for that
\* public key and derives the key it is stored under, and a call that
\* supplies only exponents already stored leaves the Keychain as it was.
C3_OneEntryPerKeyLastWins ==
    LET pk(i) == public_key(from_secret_exponent(history[i]))
        latest(k) == CHOOSE i \in DOMAIN history :
                        pk(i) = k /\ \A j \in DOMAIN history : j > i => pk(j) # k
    IN /\ DOMAIN keychain = {pk(i) : i \in DOMAIN history}
       /\ \A k \in DOMAIN keychain :
             /\ keychain[k] = from_secret_exponent(history[latest(k)])
             /\ public_key(keychain[k]) = k
       /\ (/\ last.op = "add_secret_exponents"
           /\ \A i \in DOMAIN last.secret_exponents :
                 LET v == from_secret_exponent(last.secret_exponents[i])
                 IN dict_get(last.before, public_key(v)) = v)
          => keychain = last.before

\* C3 witness: two different exponents of one public key have been supplied.
C3_Witness ==
    /\ last.op = "add_secret_exponents"
    /\ Len(history) = 2
    /\ history[1] # history[2]
    /\ public_key(from_secret_exponent(history[1]))
         = public_key(from_secret_exponent(history[2]))

\* C4: a step changes the Keychain only if it is an add_secret_exponents
\* call, and no step removes a public key from it.
C4_OnlyPopulateChanges ==
    [][/\ keychain' # keychain => last'.op = "add_secret_exponents"
       /\ DOMAIN keychain \subseteq DOMAIN keychain']_vars

\* C4 witness: a signing request of two pairs has returned a signature from
\* a Keychain that holds keys.
C4_Witness ==
    /\ Signed
    /\ last.outcome.kind = "return"
    /\ Len(last.calls) = 2
    /\ keychain # <<>>

\* C5: on a solution with no signature-requiring condition,
\* signature_for_solution calls sign not once and returns the identity of
\* the signature group, whatever the Keychain holds.
C5_EmptyGivesIdentity ==
    (Signed /\ LastPairs = <<>>)
    => /\ last.outcome = Return(IDENTITY)
       /\ last.calls = <<>>

\* C5 witness: the empty Keychain, a solution whose conditions ask for no
\* signature.
C5_Witness ==
    /\ Signed
    /\ LastPairs = <<>>
    /\ last.solution.conditions # <<>>
    /\ last.before = <<>>
    /\ last.outcome.kind = "return"

\* C6: when the Keychain holds the key of every pair, signing the pairs
\* returns a signature, and signing any reordering of the pairs returns an
\* equal one.
C6_PermutationInvariant ==
    (Signed /\ AllPresent(last.before, LastPairs))
    => /\ last.outcome.kind = "return"
       /\ \A reordered \in Permutations(LastPairs) :
             sign_each(last.before, reordered, <<>>, <<>>).outcome = last.outcome

\* C6 witness: two pairs of different keys whose signatures differ.
C6_Witness ==
    /\ Signed
    /\ last.outcome.kind = "return"
    /\ Len(last.signatures) = 2
    /\ LastPairs[1].public_key # LastPairs[2].public_key
    /\ last.signatures[1] # last.signatures[2]

\* C7: on a solution that cannot be parsed signature_for_solution raises the
\* parse error, has called sign not once and has collected no signature.
C7_ParseErrorBeforeSigning ==
    (last.op = "signature_for_solution" /\ ~last.solution.wellformed)
    => /\ last.outcome = Raise("ConditionParseError", Nil)
       /\ last.calls = <<>>
       /\ last.signatures = <<>>

\* C7 witness: the parse error, from a Keychain that holds keys.
C7_Witness ==
    /\ last.op = "signature_for_solution"
    /\ ~last.solution.wellformed
    /\ last.outcome.kind = "ConditionParseError"
    /\ last.before # <<>>

\* C8: with requests interleaved statement by statement and no populate
\* call, each finished request has the result it has when run alone against
\* the populated Keychain, and the Keychain stays what the populate phase
\* built.
C8_ConcurrentReaders ==
    /\ keychain = PopulatedKeychain
    /\ \A p \in Readers :
          rd[p].pc = "done"
          => rd[p].outcome =
                 signature_for_solution(PopulatedKeychain, rd[p].solution).outcome

\* C8 witness: reader 1 has returned a signature over two pairs while reader
\* 2, one signature collected, is in the middle of its loop.
C8_Witness ==
    /\ rd[1].pc = "done"
    /\ rd[1].outcome.kind = "return"
    /\ Len(rd[1].signatures) = 2
    /\ rd[2].pc = "loop"
    /\ Len(rd[2].signatures) = 1
    /\ rd[2].pairs # <<>>

\* C9: on a solution with exactly one pair whose key the Keychain holds,
\* signature_for_solution returns what sign returns for that pair.
C9_AggregateOfOne ==
    (Signed /\ Len(LastPairs) = 1 /\ AllPresent(last.before, LastPairs))
    => /\ last.outcome.kind = "return"
       /\ last.outcome = sign(last.before, LastPairs[1]).outcome

\* C9 witness: one pair, a signature other than the identity.
C9_Witness ==
    /\ Signed
    /\ Len(LastPairs) = 1
    /\ last.outcome.kind = "return"
    /\ last.outcome.value # IDENTITY

\* C10: sign is called on the derived pairs in their order, once each, up to
\* and including the first pair whose key the Keychain does not hold; when
\* all are signed, the list given to aggregate holds, at each position, the
\* signature of that pair's message hash under that pair's key.
C10_SignedInOrder ==
    Signed
    => LET n == Len(last.calls)
       IN /\ n <= Len(LastPairs)
          /\ last.calls = SubSeq(LastPairs, 1, n)
          /\ \A i \in 1 .. (n - 1) : LastPairs[i].public_key \in DOMAIN last.before
          /\ IF last.outcome.kind = "return"
             THEN /\ n = Len(LastPairs)
                  /\ Len(last.signatures) = n
                  /\ \A i \in 1 .. n :
                        last.signatures[i] =
                            bls_sign(last.before[LastPairs[i].public_key],
                                     LastPairs[i].message_hash)
             ELSE /\ n >= 1
                  /\ LastPairs[n].public_key \notin DOMAIN last.before
                  /\ last.outcome = Raise("ValueError", LastPairs[n].public_key)

\* C10 witness: the first of two pairs names an unknown key, the second a
\* key the Keychain holds; sign was called once.
C10_Witness ==
    /\ Signed
    /\ Len(LastPairs) = 2
    /\ LastPairs[1].public_key \notin DOMAIN last.before
    /\ LastPairs[2].public_key \in DOMAIN last.before
    /\ Len(last.calls) = 1

====
